---- MODULE Spec2Model ----
(***************************************************************************)
(* A model of the chess-ai decision engine (src/logic.py) and of the game  *)
(* loop that drives it (src/gui.py).                                       *)
(*                                                                         *)
(* The rules engine (python-chess) is external to the repository.  It is   *)
(* modelled as an abstract two-player game: a position is the board's move *)
(* stack, the content of a position (kind of position, piece census,       *)
(* number of legal moves) is a deterministic function of the game `seed`   *)
(* and of the move stack, and the game is drawn by the move-count rule     *)
(* after MaxPly plies.  Moves are the integers 1..MaxBranch.               *)
(*                                                                         *)
(* The search (alpha_beta, iterative_deepening, compute_best_move) is      *)
(* modelled statement by statement, with an explicit call stack, so that   *)
(* every board.push and board.pop is a visible step.                       *)
(*                                                                         *)
(* Two specifications share the search:                                    *)
(*   Spec      a client calls one public method of ChessAI on a position;  *)
(*   GameSpec  the main loop of src/gui.py plays games.                    *)
(***************************************************************************)
EXTENDS Integers, Sequences, FiniteSets, TLC

VARIABLES
  seed,          \* the game being played (content of every position)
  root_turn,     \* side to move at the empty move stack
  max_depth,     \* ChessAI.max_depth
  board,         \* chess.Board: its move stack
  qtable,        \* qtable[a]: QTable.q of ChessAI instance a (1 or 2)
  ai,            \* the ChessAI instance whose method is running (self)
  stack,         \* frames of alpha_beta, innermost last
  idf,           \* frame of iterative_deepening
  cbm,           \* frame of compute_best_move
  pruned,        \* auxiliary: moves skipped by a break in the running call
  phase,         \* client: "idle", "running", "done"; "gui" under GameSpec
  call,          \* client: the call made
  result,        \* client: what the call returned
  entry_q,       \* auxiliary: qtable when the client made its call
  gpc,           \* main loop: where it stands
  running,       \* main loop
  self_play,     \* main loop: menu choice
  move_history,  \* main loop: list of (fen, uci)
  hint_move,     \* main loop
  last_search_tree, \* main loop
  last_update,   \* auxiliary: the last QTable.update made by compute_best_move
  chosen,        \* auxiliary: per played move, the key compute_best_move updated
  replay_log,    \* auxiliary: the QTable.update calls of the last game-end replay
  hints,         \* auxiliary: hints asked (bounded)
  passes         \* auxiliary: passes of the main loop made (bounded)

vars == <<seed, root_turn, max_depth, board, qtable, ai, stack, idf, cbm,
          pruned, phase, call, result, entry_q, gpc, running, self_play,
          move_history,
          hint_move, last_search_tree, last_update, chosen, replay_log,
          hints, passes>>

searchVars == <<board, qtable, stack, idf, cbm, pruned, last_update>>
clientVars == <<phase, call, result, entry_q>>
guiVars == <<gpc, running, self_play, move_history, hint_move, last_search_tree,
             chosen, replay_log, hints, passes>>
configVars == <<seed, root_turn, max_depth, ai>>

(***************************************************************************)
(* Bounds of the model.                                                    *)
(***************************************************************************)
MaxBranch == 2     \* most legal moves in a position
MaxPly == 3        \* plies after which the game is drawn by move count
MaxDepth == 2      \* greatest max_depth a ChessAI is built with
NumSeeds == 12     \* games (starting positions and their trees) of Spec
NumGames == 2      \* games of GameSpec
MaxHints == 1      \* hints asked
MaxPasses == 1     \* passes of the main loop

(***************************************************************************)
(* Program constants.                                                      *)
(***************************************************************************)
MateScore == 10000
LearnDen == 10     \* LEARNING_RATE = 0.1 = 1 / LearnDen
Inf == 1000000     \* float('inf'): above every score
NoMove == 0        \* None where a move is expected

WHITE == TRUE
BLACK == FALSE

Max(a, b) == IF a >= b THEN a ELSE b
Min(a, b) == IF a <= b THEN a ELSE b

Front(s) == SubSeq(s, 1, Len(s) - 1)
Last(s) == s[Len(s)]

(***************************************************************************)
(* The rules engine.                                                       *)
(***************************************************************************)
RECURSIVE PosHash(_)
PosHash(p) ==
  IF p = <<>> THEN ((seed * 7 + 3) * (seed * 7 + 3) * 2741 + 389) % 8191
  ELSE LET h == PosHash(Front(p))
           x == h + Last(p) * 977
       IN  (x * x + h * 31 + Last(p)) % 8191

\* a second digest of the position, for its piece census
CensusHash(p) == (PosHash(p) * PosHash(p) + 7) % 8191

\* board.turn
Turn(p) == IF Len(p) % 2 = 0 THEN root_turn ELSE ~root_turn

Kind(p) ==
  LET k == (PosHash(p) \div 16) % 16 IN
  IF k < 2 THEN "checkmate"
  ELSE IF k = 2 THEN "stalemate"
  ELSE IF k = 3 THEN "insufficient"
  ELSE IF Len(p) >= MaxPly THEN "movecount"
  ELSE "open"

IsCheckmate(p) == Kind(p) = "checkmate"
IsStalemate(p) == Kind(p) = "stalemate"
IsInsufficientMaterial(p) == Kind(p) = "insufficient"
IsGameOver(p) == Kind(p) # "open"

\* list(board.legal_moves), in the engine's enumeration order.  A position
\* drawn by material or by move count has legal moves in chess; the model
\* gives it none at the last ply, where no code asks for them.
LegalMoves(p) ==
  IF Kind(p) \in {"checkmate", "stalemate"} \/ Len(p) >= MaxPly THEN <<>>
  ELSE LET h == PosHash(p)
           n == IF h % 4 = 0 THEN 1 + ((h \div 4) % MaxBranch) ELSE MaxBranch
       IN  [i \in 1..n |-> i]

\* board.fen(): the identity of the position, one number per move stack
RECURSIVE Fen(_)
Fen(p) == IF p = <<>> THEN 0 ELSE Fen(Front(p)) * (MaxBranch + 1) + Last(p)

\* move.uci()
Uci(m) == m

PieceTypes == <<"PAWN", "KNIGHT", "BISHOP", "ROOK", "QUEEN", "KING">>

\* len(board.pieces(piece_type, color))
PieceCount(p, t, c) ==
  IF PieceTypes[t] = "KING" THEN 1
  ELSE IF Kind(p) = "insufficient" THEN 0
  ELSE LET bit == 2 * (t - 1) + (IF c = WHITE THEN 0 ELSE 1)
       IN  (CensusHash(p) \div (2 ^ bit)) % 2

\* board.piece_at(square) for the four centre squares: 0 none, 1 white, 2 black
CenterOccupant(p, sq) ==
  IF Kind(p) = "insufficient" THEN 0
  ELSE (((CensusHash(p) \div 64) % 81) \div (3 ^ (sq - 1))) % 3

(***************************************************************************)
(* ChessAI.evaluate_board                                                  *)
(***************************************************************************)
PieceValue(t) ==
  CASE PieceTypes[t] = "PAWN" -> 100
    [] PieceTypes[t] = "KNIGHT" -> 300
    [] PieceTypes[t] = "BISHOP" -> 350
    [] PieceTypes[t] = "ROOK" -> 500
    [] PieceTypes[t] = "QUEEN" -> 900
    [] PieceTypes[t] = "KING" -> 0

RECURSIVE MaterialFrom(_, _)
MaterialFrom(p, t) ==
  IF t > Len(PieceTypes) THEN 0
  ELSE PieceCount(p, t, WHITE) * PieceValue(t)
       - PieceCount(p, t, BLACK) * PieceValue(t)
       + MaterialFrom(p, t + 1)

RECURSIVE CenterFrom(_, _)
CenterFrom(p, sq) ==
  IF sq > 4 THEN 0
  ELSE (IF CenterOccupant(p, sq) = 1 THEN 20
        ELSE IF CenterOccupant(p, sq) = 2 THEN -20 ELSE 0)
       + CenterFrom(p, sq + 1)

MatedScore(p) == IF Turn(p) = WHITE THEN -MateScore ELSE MateScore

evaluate_board(p) ==
  IF IsCheckmate(p) THEN MatedScore(p)
  ELSE IF IsStalemate(p) \/ IsInsufficientMaterial(p) THEN 0
  ELSE MaterialFrom(p, 1) + CenterFrom(p, 1)

(***************************************************************************)
(* QTable.  A preference q is kept in thousandths: the stored integer is   *)
(* 1000 * q, and the update rounds down to a thousandth.                   *)
(***************************************************************************)
get_q(q, fen, move) ==
  IF fen \in DOMAIN q /\ move \in DOMAIN q[fen] THEN q[fen][move] ELSE 0

QRow(q, fen) == IF fen \in DOMAIN q THEN q[fen] ELSE <<>>

\* a slip: the row of the position is started afresh at every update
QUpdateFreshRow(q, fen, move, reward) ==
  (fen :> (move :> (reward \div LearnDen))) @@ q

QUpdate(q, fen, move, reward) ==
  LET row == QRow(q, fen)
      old_q == IF move \in DOMAIN row THEN row[move] ELSE 0
      new_q == old_q + ((reward - old_q) \div LearnDen)
  IN  (fen :> ((move :> new_q) @@ row)) @@ q

\* the keys (fen, move) of a table
QKeys(q) == UNION {{<<f, m>> : m \in DOMAIN q[f]} : f \in DOMAIN q}

(***************************************************************************)
(* ChessAI.get_ordered_moves: a stable sort by descending preference       *)
(***************************************************************************)
get_ordered_moves(p, q) ==
  LET moves == LegalMoves(p)
      fen == Fen(p)
      n == Len(moves)
      key(i) == get_q(q, fen, Uci(moves[i]))
      rank(i) == 1 + Cardinality({j \in 1..n :
                        key(j) > key(i) \/ (key(j) = key(i) /\ j < i)})
  IN  [r \in 1..n |-> moves[CHOOSE i \in 1..n : rank(i) = r]]

(***************************************************************************)
(* Unpruned minimax of the same depth: the reference alpha_beta is         *)
(* compared with.                                                          *)
(***************************************************************************)
RECURSIVE Minimax(_, _, _)
Minimax(p, depth, maximizing) ==
  IF depth = 0 \/ IsGameOver(p) \/ LegalMoves(p) = <<>> THEN evaluate_board(p)
  ELSE LET vals == {Minimax(Append(p, LegalMoves(p)[i]), depth - 1, ~maximizing) :
                      i \in 1..Len(LegalMoves(p))}
       IN  IF maximizing THEN CHOOSE v \in vals : \A w \in vals : v >= w
           ELSE CHOOSE v \in vals : \A w \in vals : v <= w

(***************************************************************************)
(* Frames.                                                                 *)
(***************************************************************************)
\* what iterative_deepening returns for its score table: None or a dict,
\* the dict kept as the list of its rows for depth 1, 2, ...
TreeNone == [none |-> TRUE, rows |-> <<>>]
MkTree(rows) == [none |-> FALSE, rows |-> rows]

\* a call of alpha_beta; entry is auxiliary: the move stack at the call
ABFrame(depth, alpha, beta, maximizing, entry) ==
  [pc |-> "enter", depth |-> depth, alpha |-> alpha, beta |-> beta,
   maximizing |-> maximizing, moves |-> <<>>, idx |-> 0, value |-> 0,
   entry |-> entry]

IdfOff ==
  [pc |-> "off", legal_moves |-> <<>>, depth |-> 0, alpha |-> 0, beta |-> 0,
   best_move |-> NoMove, best_value |-> 0, current_best |-> NoMove,
   current_value |-> 0, search_tree |-> <<>>, idx |-> 0, expired |-> FALSE,
   ret_move |-> NoMove, ret_tree |-> TreeNone, entry |-> <<>>]

\* expired is auxiliary: whether the driver stopped on its time budget
CbmOff ==
  [pc |-> "off", fen |-> 0, prev_score |-> 0, best_move |-> NoMove,
   search_tree |-> TreeNone, expired |-> FALSE, entry |-> <<>>]

NoUpdate == [table |-> 0, fen |-> 0, move |-> NoMove, reward |-> 0]

\* board.push(move)
BoardPush(b, move) == Append(b, move)

\* a slip: the move is left on the board
BoardPopForgotten(b) == b

\* board.pop()
BoardPop(b) == Front(b)

(***************************************************************************)
(* ChessAI.alpha_beta                                                      *)
(***************************************************************************)
\* lines 100-108 and 118: the base cases, the ordered moves, the first value
ABEnter ==
  /\ stack # <<>>
  /\ Last(stack).pc = "enter"
  /\ LET f == Last(stack)
         moves == get_ordered_moves(board, qtable[ai])
         leaf == [f EXCEPT !.pc = "ret", !.value = evaluate_board(board)]
     IN  stack' = [stack EXCEPT ![Len(stack)] =
           IF f.depth = 0 \/ IsGameOver(board) THEN leaf
           ELSE IF moves = <<>> THEN leaf
           ELSE [f EXCEPT !.pc = "loop", !.moves = moves, !.idx = 1,
                          !.value = IF f.maximizing THEN -Inf ELSE Inf]]
  /\ UNCHANGED <<board, qtable, idf, cbm, pruned, last_update>>
  /\ UNCHANGED <<clientVars, guiVars, configVars>>

\* lines 110-111 and 120-121: apply the move and search the reply
ABPush ==
  /\ stack # <<>>
  /\ Last(stack).pc = "loop"
  /\ LET f == Last(stack)
         b == BoardPush(board, f.moves[f.idx])
     IN  /\ board' = b
         /\ stack' = Append([stack EXCEPT ![Len(stack)].pc = "wait"],
                            ABFrame(f.depth - 1, f.alpha, f.beta, ~f.maximizing, b))
  /\ UNCHANGED <<qtable, idf, cbm, pruned, last_update>>
  /\ UNCHANGED <<clientVars, guiVars, configVars>>

\* a slip: the minimizing branch copies the maximizing one
AfterReplyMaxOnly(f, v) ==
  LET value == Max(f.value, v)
      alpha == Max(f.alpha, value)
      stop == alpha >= f.beta \/ f.idx = Len(f.moves)
  IN  [f EXCEPT !.value = value, !.alpha = alpha,
                !.idx = IF stop THEN f.idx ELSE f.idx + 1,
                !.pc = IF stop THEN "ret" ELSE "loop"]

\* lines 111-116 and 121-126: the frame after a reply returned v
AfterReply(f, v) ==
  LET value == IF f.maximizing THEN Max(f.value, v) ELSE Min(f.value, v)
      alpha == IF f.maximizing THEN Max(f.alpha, value) ELSE f.alpha
      beta == IF f.maximizing THEN f.beta ELSE Min(f.beta, value)
      stop == alpha >= beta \/ f.idx = Len(f.moves)
  IN  [f EXCEPT !.value = value, !.alpha = alpha, !.beta = beta,
                !.idx = IF stop THEN f.idx ELSE f.idx + 1,
                !.pc = IF stop THEN "ret" ELSE "loop"]

\* the reply returns to an alpha_beta frame: revert the move, fold the value
ABReturn ==
  /\ Len(stack) >= 2
  /\ Last(stack).pc = "ret"
  /\ LET f == stack[Len(stack) - 1]
         g == AfterReply(f, Last(stack).value)
     IN  /\ board' = BoardPop(board)
         /\ stack' = [Front(stack) EXCEPT ![Len(stack) - 1] = g]
         /\ pruned' = pruned + (IF g.alpha >= g.beta THEN Len(f.moves) - f.idx ELSE 0)
  /\ UNCHANGED <<qtable, idf, cbm, last_update>>
  /\ UNCHANGED <<clientVars, guiVars, configVars>>

(***************************************************************************)
(* ChessAI.iterative_deepening                                             *)
(***************************************************************************)
\* a slip: the guard of line 135 is left out
NoLegalMovesUnchecked(legal_moves) == FALSE

\* line 135: `if not legal_moves`
NoLegalMoves(legal_moves) == legal_moves = <<>>

\* a slip: `>=`, so that the last of equal moves wins
BetterOrEqual(value, current_value) == value >= current_value

\* line 152: `if value > current_value`
Better(value, current_value) == value > current_value

\* a slip: the reply of a root move searched as the root player's own ply
RootMaximizingTrue == TRUE

\* line 149: the flag the root hands to alpha_beta
RootMaximizing == FALSE

\* lines 130-137
IDEnter ==
  /\ idf.pc = "enter"
  /\ LET legal_moves == get_ordered_moves(board, qtable[ai])
     IN  idf' = IF NoLegalMoves(legal_moves)
                THEN [idf EXCEPT !.pc = "ret", !.legal_moves = legal_moves,
                                 !.ret_move = NoMove, !.ret_tree = TreeNone]
                ELSE [idf EXCEPT !.pc = "top", !.legal_moves = legal_moves,
                                 !.depth = 1, !.best_move = NoMove,
                                 !.best_value = -Inf, !.search_tree = <<>>]
  /\ UNCHANGED <<board, qtable, stack, cbm, pruned, last_update>>
  /\ UNCHANGED <<clientVars, guiVars, configVars>>

\* lines 139-146 and 159: the top of the loop over depths.  Whether the clock
\* has passed the budget is the environment's choice.
IDTop ==
  /\ idf.pc = "top"
  /\ \/ /\ idf.depth > max_depth
        /\ idf' = [idf EXCEPT !.pc = "ret", !.ret_move = idf.best_move,
                              !.ret_tree = MkTree(idf.search_tree)]
     \/ /\ idf.depth <= max_depth
        /\ idf' = [idf EXCEPT !.pc = "ret", !.expired = TRUE,
                              !.ret_move = idf.best_move,
                              !.ret_tree = MkTree(idf.search_tree)]
     \/ /\ idf.depth <= max_depth
        /\ idf' = [idf EXCEPT !.pc = "moves", !.alpha = -Inf, !.beta = Inf,
                              !.current_best = idf.best_move,
                              !.current_value = -Inf,
                              !.search_tree = Append(idf.search_tree, <<>>),
                              !.idx = 1]
  /\ UNCHANGED <<board, qtable, stack, cbm, pruned, last_update>>
  /\ UNCHANGED <<clientVars, guiVars, configVars>>

\* lines 147-149, and 156-158 when the moves are exhausted
IDNext ==
  /\ idf.pc = "moves"
  /\ \/ /\ idf.idx <= Len(idf.legal_moves)
        /\ board' = BoardPush(board, idf.legal_moves[idf.idx])
        /\ stack' = <<ABFrame(idf.depth - 1, idf.alpha, idf.beta,
                              RootMaximizing, board')>>
        /\ idf' = [idf EXCEPT !.pc = "wait"]
     \/ /\ idf.idx > Len(idf.legal_moves)
        /\ idf' = [idf EXCEPT
             !.pc = "top",
             !.depth = idf.depth + 1,
             !.best_move = IF idf.current_best # NoMove
                           THEN idf.current_best ELSE idf.best_move,
             !.best_value = IF idf.current_best # NoMove
                            THEN idf.current_value ELSE idf.best_value]
        /\ UNCHANGED <<board, stack>>
  /\ UNCHANGED <<qtable, cbm, pruned, last_update>>
  /\ UNCHANGED <<clientVars, guiVars, configVars>>

\* lines 149-155: the reply returns to the root
IDReturn ==
  /\ idf.pc = "wait"
  /\ Len(stack) = 1
  /\ stack[1].pc = "ret"
  /\ LET value == stack[1].value
         move == idf.legal_moves[idf.idx]
         better == Better(value, idf.current_value)
     IN  /\ board' = BoardPop(board)
         /\ stack' = <<>>
         /\ idf' = [idf EXCEPT
              !.pc = "moves",
              !.search_tree[idf.depth] = (Uci(move) :> value) @@ @,
              !.current_value = IF better THEN value ELSE @,
              !.current_best = IF better THEN move ELSE @,
              !.alpha = Max(@, value),
              !.idx = @ + 1]
  /\ UNCHANGED <<qtable, cbm, pruned, last_update>>
  /\ UNCHANGED <<clientVars, guiVars, configVars>>

(***************************************************************************)
(* ChessAI.compute_best_move                                               *)
(***************************************************************************)
\* lines 163-165
CBMEnter ==
  /\ cbm.pc = "enter"
  /\ cbm' = [cbm EXCEPT !.pc = "wait", !.fen = Fen(board),
                        !.prev_score = evaluate_board(board)]
  /\ idf' = [IdfOff EXCEPT !.pc = "enter", !.entry = board]
  /\ UNCHANGED <<board, qtable, stack, pruned, last_update>>
  /\ UNCHANGED <<clientVars, guiVars, configVars>>

\* lines 165-170: the driver returns; the chosen move is applied, scored and
\* learned.  reward is in thousandths: (new_score - prev_score) / 100.0
CBMAfter ==
  /\ cbm.pc = "wait"
  /\ idf.pc = "ret"
  /\ idf' = IdfOff
  /\ \/ /\ idf.ret_move # NoMove
        /\ LET b == BoardPush(board, idf.ret_move)
               reward == (evaluate_board(b) - cbm.prev_score) * 10
           IN  /\ board' = b
               /\ qtable' = [qtable EXCEPT ![ai] =
                               QUpdate(@, cbm.fen, Uci(idf.ret_move), reward)]
               /\ last_update' = [table |-> ai, fen |-> cbm.fen,
                                  move |-> Uci(idf.ret_move), reward |-> reward]
        /\ cbm' = [cbm EXCEPT !.pc = "applied", !.best_move = idf.ret_move,
                              !.search_tree = idf.ret_tree,
                              !.expired = idf.expired]
     \/ /\ idf.ret_move = NoMove
        /\ cbm' = [cbm EXCEPT !.pc = "ret", !.best_move = idf.ret_move,
                              !.search_tree = idf.ret_tree,
                              !.expired = idf.expired]
        /\ UNCHANGED <<board, qtable, last_update>>
  /\ UNCHANGED <<stack, pruned>>
  /\ UNCHANGED <<clientVars, guiVars, configVars>>

\* line 171
CBMRevert ==
  /\ cbm.pc = "applied"
  /\ board' = BoardPop(board)
  /\ cbm' = [cbm EXCEPT !.pc = "ret"]
  /\ UNCHANGED <<qtable, stack, idf, pruned, last_update>>
  /\ UNCHANGED <<clientVars, guiVars, configVars>>

Search ==
  \/ ABEnter \/ ABPush \/ ABReturn
  \/ IDEnter \/ IDTop \/ IDNext \/ IDReturn
  \/ CBMEnter \/ CBMAfter \/ CBMRevert

(***************************************************************************)
(* A client of ChessAI: one call of a public method on a position.         *)
(***************************************************************************)
\* the move stacks of at most n plies
Paths(n) == UNION {[1..k -> 1..MaxBranch] : k \in 0..n}

\* the table pickled in file f (1: q1.pkl, 2: q2.pkl)
SavedTable(f) ==
  LET keys == {Fen(p) : p \in Paths(MaxPly)}
  IN  [k \in {k \in keys : (k + f) % 3 # 0} |->
         [m \in {m \in 1..MaxBranch : (k + m + f) % 4 # 0} |->
            (((k * 7 + m * 13 + f * 29) % 5) - 2) * 250]]

\* QTable.load: a missing file leaves the table empty
LoadedTable(f, exists) == IF exists THEN SavedTable(f) ELSE <<>>

NoCall == [fn |-> "none", depth |-> 0, maximizing |-> FALSE, entry |-> <<>>]
NoResult == [value |-> 0, move |-> NoMove, tree |-> TreeNone, expired |-> FALSE]

Init ==
  /\ seed \in 0..(NumSeeds - 1)
  /\ root_turn \in {WHITE, BLACK}
  /\ max_depth \in 1..MaxDepth
  /\ board \in {<<>>} \cup {<<LegalMoves(<<>>)[i]>> : i \in 1..Len(LegalMoves(<<>>))}
  /\ \E e1 \in BOOLEAN : qtable = <<LoadedTable(1, e1), <<>>>>
  /\ ai = 1
  /\ stack = <<>>
  /\ idf = IdfOff
  /\ cbm = CbmOff
  /\ pruned = 0
  /\ phase = "idle"
  /\ call = NoCall
  /\ result = NoResult
  /\ entry_q = qtable
  /\ gpc = "off"
  /\ running = FALSE
  /\ self_play = FALSE
  /\ move_history = <<>>
  /\ hint_move = NoMove
  /\ last_search_tree = TreeNone
  /\ last_update = NoUpdate
  /\ chosen = <<>>
  /\ replay_log = <<>>
  /\ hints = 0
  /\ passes = 0

CallAlphaBeta ==
  /\ phase = "idle"
  /\ \E depth \in 0..MaxDepth, maximizing \in BOOLEAN :
       /\ call' = [fn |-> "alpha_beta", depth |-> depth,
                   maximizing |-> maximizing, entry |-> board]
       /\ stack' = <<ABFrame(depth, -Inf, Inf, maximizing, board)>>
  /\ phase' = "running"
  /\ UNCHANGED <<board, qtable, idf, cbm, pruned, last_update, result, entry_q>>
  /\ UNCHANGED <<guiVars, configVars>>

ReturnAlphaBeta ==
  /\ phase = "running"
  /\ call.fn = "alpha_beta"
  /\ Len(stack) = 1
  /\ stack[1].pc = "ret"
  /\ result' = [NoResult EXCEPT !.value = stack[1].value]
  /\ stack' = <<>>
  /\ phase' = "done"
  /\ UNCHANGED <<board, qtable, idf, cbm, pruned, last_update, call, entry_q>>
  /\ UNCHANGED <<guiVars, configVars>>

CallIterativeDeepening ==
  /\ phase = "idle"
  /\ call' = [NoCall EXCEPT !.fn = "iterative_deepening", !.entry = board]
  /\ idf' = [IdfOff EXCEPT !.pc = "enter", !.entry = board]
  /\ phase' = "running"
  /\ UNCHANGED <<board, qtable, stack, cbm, pruned, last_update, result, entry_q>>
  /\ UNCHANGED <<guiVars, configVars>>

ReturnIterativeDeepening ==
  /\ phase = "running"
  /\ call.fn = "iterative_deepening"
  /\ idf.pc = "ret"
  /\ result' = [NoResult EXCEPT !.move = idf.ret_move, !.tree = idf.ret_tree,
                                !.expired = idf.expired]
  /\ idf' = IdfOff
  /\ phase' = "done"
  /\ UNCHANGED <<board, qtable, stack, cbm, pruned, last_update, call, entry_q>>
  /\ UNCHANGED <<guiVars, configVars>>

CallComputeBestMove ==
  /\ phase = "idle"
  /\ call' = [NoCall EXCEPT !.fn = "compute_best_move", !.entry = board]
  /\ cbm' = [CbmOff EXCEPT !.pc = "enter", !.entry = board]
  /\ phase' = "running"
  /\ UNCHANGED <<board, qtable, stack, idf, pruned, last_update, result, entry_q>>
  /\ UNCHANGED <<guiVars, configVars>>

ReturnComputeBestMove ==
  /\ phase = "running"
  /\ call.fn = "compute_best_move"
  /\ cbm.pc = "ret"
  /\ result' = [NoResult EXCEPT !.move = cbm.best_move, !.tree = cbm.search_tree,
                                !.expired = cbm.expired]
  /\ cbm' = CbmOff
  /\ phase' = "done"
  /\ UNCHANGED <<board, qtable, stack, idf, pruned, last_update, call, entry_q>>
  /\ UNCHANGED <<guiVars, configVars>>

Next ==
  \/ CallAlphaBeta \/ ReturnAlphaBeta
  \/ CallIterativeDeepening \/ ReturnIterativeDeepening
  \/ CallComputeBestMove \/ ReturnComputeBestMove
  \/ Search

Spec == Init /\ [][Next]_vars

(***************************************************************************)
(* The main loop of src/gui.py.  One pass handles the pending events, lets *)
(* the AI move, and ends the game when it is over.  Drawing, the selection *)
(* of a square and the status line are left out: they reach neither the    *)
(* board nor a value table.                                                *)
(***************************************************************************)
\* menu(): 'p' gives (chess.WHITE, False), 's' gives (None, True)
player_side == WHITE

\* `if qtable2`: the second table exists in self-play only
HasQTable2 == self_play

MorePasses == passes < MaxPasses

\* where the pass goes after its last block
NextPass == IF running THEN "events" ELSE "quit"

GameInit ==
  /\ seed \in {s \in 0..(NumGames - 1) :
                 ((((s * 7 + 3) * (s * 7 + 3) * 2741 + 389) % 8191) \div 16) % 16 > 3}
  /\ root_turn = WHITE
  /\ max_depth = MaxDepth
  /\ board = <<>>
  /\ self_play \in BOOLEAN
  /\ \E e1 \in BOOLEAN, e2 \in {e \in BOOLEAN : self_play \/ ~e} :
       qtable = <<LoadedTable(1, e1),
                  IF self_play THEN LoadedTable(2, e2) ELSE <<>>>>
  /\ ai = 1
  /\ stack = <<>>
  /\ idf = IdfOff
  /\ cbm = CbmOff
  /\ pruned = 0
  /\ phase = "gui"
  /\ call = NoCall
  /\ result = NoResult
  /\ entry_q = qtable
  /\ gpc = "events"
  /\ running = TRUE
  /\ move_history = <<>>
  /\ hint_move = NoMove
  /\ last_search_tree = TreeNone
  /\ last_update = NoUpdate
  /\ chosen = <<>>
  /\ replay_log = <<>>
  /\ hints = 0
  /\ passes = 0

\* lines 126-130: pygame.QUIT
EventQuit ==
  /\ gpc = "events"
  /\ running
  /\ running' = FALSE
  /\ UNCHANGED <<gpc, self_play, move_history, hint_move, last_search_tree,
                 chosen, replay_log, hints, passes>>
  /\ UNCHANGED <<searchVars, clientVars, configVars>>

\* lines 132-133: the H key asks ai1 for a hint
EventHint ==
  /\ gpc = "events"
  /\ MorePasses
  /\ hints < MaxHints
  /\ ~self_play
  /\ Turn(board) = player_side
  /\ ai' = 1
  /\ cbm' = [CbmOff EXCEPT !.pc = "enter", !.entry = board]
  /\ gpc' = "hint_wait"
  /\ hints' = hints + 1
  /\ UNCHANGED <<board, qtable, stack, idf, pruned, last_update>>
  /\ UNCHANGED <<running, self_play, move_history, hint_move, last_search_tree,
                 chosen, replay_log, passes>>
  /\ UNCHANGED <<seed, root_turn, max_depth, clientVars>>

\* lines 133-134: the hint is back
EventHintDone ==
  /\ gpc = "hint_wait"
  /\ cbm.pc = "ret"
  /\ hint_move' = cbm.best_move
  /\ last_search_tree' = cbm.search_tree
  /\ cbm' = CbmOff
  /\ gpc' = "events"
  /\ UNCHANGED <<board, qtable, stack, idf, pruned, last_update>>
  /\ UNCHANGED <<running, self_play, move_history, chosen, replay_log, hints, passes>>
  /\ UNCHANGED <<clientVars, configVars>>

\* lines 137-160: the click that completes a legal move of the human
EventHumanMove ==
  /\ gpc = "events"
  /\ MorePasses
  /\ ~self_play
  /\ Turn(board) = player_side
  /\ \E i \in 1..Len(LegalMoves(board)) :
       LET move == LegalMoves(board)[i]
           b == BoardPush(board, move)
       IN  /\ board' = b
           /\ move_history' = Append(move_history, <<Fen(b), Uci(move)>>)
  /\ chosen' = Append(chosen, NoUpdate)
  /\ hint_move' = NoMove
  /\ UNCHANGED <<qtable, stack, idf, cbm, pruned, last_update>>
  /\ UNCHANGED <<gpc, running, self_play, last_search_tree, replay_log, hints, passes>>
  /\ UNCHANGED <<clientVars, configVars>>

\* the events of this pass are handled
EventsDone ==
  /\ gpc = "events"
  /\ MorePasses
  /\ gpc' = "ai"
  /\ UNCHANGED <<running, self_play, move_history, hint_move, last_search_tree,
                 chosen, replay_log, hints, passes>>
  /\ UNCHANGED <<searchVars, clientVars, configVars>>

\* lines 166-169: the AI whose turn it is is asked for its move
AIMove ==
  /\ gpc = "ai"
  /\ \/ /\ ~IsGameOver(board)
        /\ self_play \/ Turn(board) # player_side
        /\ ai' = IF Turn(board) = WHITE THEN 1 ELSE IF self_play THEN 2 ELSE 1
        /\ cbm' = [CbmOff EXCEPT !.pc = "enter", !.entry = board]
        /\ gpc' = "ai_wait"
     \/ /\ ~(~IsGameOver(board) /\ (self_play \/ Turn(board) # player_side))
        /\ gpc' = "over"
        /\ UNCHANGED <<ai, cbm>>
  /\ UNCHANGED <<board, qtable, stack, idf, pruned, last_update>>
  /\ UNCHANGED <<running, self_play, move_history, hint_move, last_search_tree,
                 chosen, replay_log, hints, passes>>
  /\ UNCHANGED <<seed, root_turn, max_depth, clientVars>>

\* lines 169-175: the move is back and is played
AIMoveDone ==
  /\ gpc = "ai_wait"
  /\ cbm.pc = "ret"
  /\ last_search_tree' = cbm.search_tree
  /\ cbm' = CbmOff
  /\ gpc' = "over"
  /\ \/ /\ cbm.best_move # NoMove
        /\ LET b == BoardPush(board, cbm.best_move)
           IN  /\ board' = b
               /\ move_history' = Append(move_history, <<Fen(b), Uci(cbm.best_move)>>)
        /\ chosen' = Append(chosen, last_update)
        /\ hint_move' = NoMove
     \/ /\ cbm.best_move = NoMove
        /\ UNCHANGED <<board, move_history, chosen, hint_move>>
  /\ UNCHANGED <<qtable, stack, idf, pruned, last_update>>
  /\ UNCHANGED <<running, self_play, replay_log, hints, passes>>
  /\ UNCHANGED <<clientVars, configVars>>

\* ChessAI.goal_test
goal_test(p) ==
  IF IsCheckmate(p) THEN (IF Turn(p) # WHITE THEN "Win" ELSE "Loss")
  ELSE IF IsStalemate(p) \/ IsInsufficientMaterial(p) THEN "Draw"
  ELSE "Ongoing"

\* line 179, in thousandths
TerminalReward(p) ==
  IF goal_test(p) = "Win" THEN 1000
  ELSE IF goal_test(p) = "Loss" THEN -1000 ELSE 0

\* lines 180-183 for one table: every pair of the history is updated
RECURSIVE Replay(_, _, _)
Replay(q, history, reward) ==
  IF history = <<>> THEN q
  ELSE Replay(QUpdate(q, Head(history)[1], Head(history)[2], reward),
              Tail(history), reward)

\* lines 180-183: the QTable.update calls of the replay, in order; ply is the
\* place of the pair in move_history
RECURSIVE ReplayCalls(_, _, _)
ReplayCalls(history, ply, reward) ==
  IF history = <<>> THEN <<>>
  ELSE <<[table |-> 1, fen |-> Head(history)[1], move |-> Head(history)[2],
          reward |-> reward, ply |-> ply]>>
       \o (IF HasQTable2
           THEN <<[table |-> 2, fen |-> Head(history)[1], move |-> Head(history)[2],
                   reward |-> -reward, ply |-> ply]>>
           ELSE <<>>)
       \o ReplayCalls(Tail(history), ply + 1, reward)

\* lines 177-183: the game is over: the terminal reward is replayed
GameOver ==
  /\ gpc = "over"
  /\ \/ /\ IsGameOver(board)
        /\ LET reward == TerminalReward(board)
           IN  /\ qtable' = <<Replay(qtable[1], move_history, reward),
                              IF HasQTable2
                              THEN Replay(qtable[2], move_history, -reward)
                              ELSE qtable[2]>>
               /\ replay_log' = ReplayCalls(move_history, 1, reward)
        /\ gpc' = "reset"
        /\ UNCHANGED passes
     \/ /\ ~IsGameOver(board)
        /\ gpc' = NextPass
        /\ passes' = passes + 1
        /\ UNCHANGED <<qtable, replay_log>>
  /\ UNCHANGED <<board, stack, idf, cbm, pruned, last_update>>
  /\ UNCHANGED <<running, self_play, move_history, hint_move, last_search_tree,
                 chosen, hints>>
  /\ UNCHANGED <<clientVars, configVars>>

\* lines 184-190: the tables are saved and a new game is set up
GameReset ==
  /\ gpc = "reset"
  /\ board' = <<>>
  /\ move_history' = <<>>
  /\ chosen' = <<>>
  /\ passes' = passes + 1
  /\ gpc' = NextPass
  /\ UNCHANGED <<qtable, stack, idf, cbm, pruned, last_update>>
  /\ UNCHANGED <<running, self_play, hint_move, last_search_tree, replay_log, hints>>
  /\ UNCHANGED <<clientVars, configVars>>

GameNext ==
  \/ EventQuit \/ EventHint \/ EventHintDone \/ EventHumanMove \/ EventsDone
  \/ AIMove \/ AIMoveDone \/ GameOver \/ GameReset
  \/ Search

GameSpec == GameInit /\ [][GameNext]_vars

(***************************************************************************)
(* Claims about the search, checked under Spec.                            *)
(***************************************************************************)
Returned(fn) == phase = "done" /\ call.fn = fn

\* the root moves in the order the driver searches them
RootMoves == get_ordered_moves(call.entry, entry_q[1])

\* the exact minimax value of root move m at driver depth d
RootValue(m, d) == Minimax(Append(call.entry, m), d - 1, FALSE)

\* the first root move, in search order, of greatest minimax value at depth d
BestRootMove(d) ==
  LET moves == RootMoves
      best == CHOOSE i \in 1..Len(moves) :
                /\ \A j \in 1..Len(moves) : RootValue(moves[i], d) >= RootValue(moves[j], d)
                /\ \A j \in 1..(i - 1) : RootValue(moves[j], d) < RootValue(moves[i], d)
  IN  moves[best]

\* C1: apply/revert stack discipline.  Every call of alpha_beta,
\* iterative_deepening and compute_best_move holds the move stack of its entry
\* whenever it is not waiting for a callee, so also when it returns; while it
\* waits, the one move it applied is the last of the callee's entry stack, so
\* that moves are reverted last-applied-first.
C1_StackDiscipline ==
  /\ \A i \in 1..Len(stack) :
       IF i = Len(stack)
       THEN stack[i].pc \in {"enter", "loop", "ret"} /\ board = stack[i].entry
       ELSE /\ stack[i].pc = "wait"
            /\ stack[i + 1].entry = Append(stack[i].entry, stack[i].moves[stack[i].idx])
  /\ idf.pc \in {"enter", "top", "moves", "ret"} => stack = <<>> /\ board = idf.entry
  /\ idf.pc = "wait" =>
       stack # <<>> /\ stack[1].entry = Append(idf.entry, idf.legal_moves[idf.idx])
  /\ cbm.pc \in {"enter", "ret"} => board = cbm.entry
  /\ cbm.pc = "wait" => idf.pc # "off" /\ idf.entry = cbm.entry
  /\ cbm.pc = "applied" => board = Append(cbm.entry, cbm.best_move)
  /\ phase = "done" => board = call.entry

\* a decision from a position one move into the game that searched two
\* depths, pruned, and returned a move, has returned the board as it got it
C1_Witness ==
  /\ Returned("compute_best_move")
  /\ Len(call.entry) = 1
  /\ result.move # NoMove
  /\ Len(result.tree.rows) >= 2
  /\ pruned > 0
  /\ board = call.entry

\* C2: alpha-beta equivalence.  alpha_beta(position, D, -inf, +inf, maximizing)
\* returns the value of the unpruned minimax of depth D started with the same
\* flag, for every D, flag, game and value table.
C2_AlphaBetaEquivalence ==
  Returned("alpha_beta") =>
    result.value = Minimax(call.entry, call.depth, call.maximizing)

\* a search of depth 2 or more, ordered by a loaded table, that pruned
C2_Witness ==
  /\ Returned("alpha_beta")
  /\ call.depth >= 2
  /\ pruned > 0
  /\ entry_q[1] # <<>>
  /\ result.value = Minimax(call.entry, call.depth, call.maximizing)

\* C3: driver monotonic adoption.  When iterative_deepening returns from a
\* position with legal moves, every depth it started has a full row (no depth
\* is abandoned part-way), the depths started are 1..n with n = max_depth
\* unless the budget stopped the loop, and the move returned is the best move
\* of depth n: the first root move in search order of greatest minimax value;
\* with n = 0 it is no move, with an empty score table.
C3_DriverAdoption ==
  (Returned("iterative_deepening") /\ LegalMoves(call.entry) # <<>>) =>
    LET rows == result.tree.rows
        n == Len(rows)
    IN  /\ ~result.tree.none
        /\ n <= max_depth
        /\ ~result.expired => n = max_depth
        /\ \A d \in 1..n :
             DOMAIN rows[d] = {Uci(RootMoves[i]) : i \in 1..Len(RootMoves)}
        /\ result.move = IF n = 0 THEN NoMove ELSE BestRootMove(n)

\* the driver searched two depths or more, and the move of the last depth is
\* not the move depth 1 would have given
C3_Witness ==
  /\ Returned("iterative_deepening")
  /\ Len(result.tree.rows) >= 2
  /\ Len(RootMoves) >= 2
  /\ result.move = BestRootMove(Len(result.tree.rows))
  /\ result.move # BestRootMove(1)

\* C4: mate-in-one selection, as claimed: from a position where the side to
\* move has a mating move, a decision whose depths all completed returns a
\* move that mates at once.
C4_MateInOneSelected ==
  (/\ Returned("compute_best_move")
   /\ ~result.expired
   /\ Kind(call.entry) = "open"
   /\ \E i \in 1..Len(LegalMoves(call.entry)) :
        IsCheckmate(Append(call.entry, LegalMoves(call.entry)[i])))
  => (result.move # NoMove /\ IsCheckmate(Append(call.entry, result.move)))

\* the value recorded for root move number i at depth d, and the greatest
\* value recorded before it at that depth
Recorded(d, i) == result.tree.rows[d][Uci(RootMoves[i])]
RecordedBefore(d, i) ==
  LET before == {Recorded(d, j) : j \in 1..(i - 1)} \cup {-Inf}
  IN  CHOOSE v \in before : \A w \in before : v >= w

C8_NoLegalMoves ==
  (/\ phase \in {"running", "done"}
   /\ call.fn \in {"iterative_deepening", "compute_best_move"}
   /\ LegalMoves(call.entry) = <<>>)
  => /\ stack = <<>>
     /\ board = call.entry
     /\ qtable = entry_q
     /\ phase = "done" => (result.move = NoMove /\ result.tree.none)

\* a decision asked on a checkmate position, with a loaded value table
C8_Witness ==
  /\ Returned("compute_best_move")
  /\ IsCheckmate(call.entry)
  /\ entry_q[1] # <<>>
  /\ result.move = NoMove
  /\ result.tree.none

(***************************************************************************)
(* Claims about the game loop, checked under GameSpec.                     *)
(***************************************************************************)
\* the side of the player whose moves the agent of table t chooses
OwnerSide(t) == IF t = 1 /\ self_play THEN WHITE ELSE BLACK

\* the side that played the move at place ply of the history
MoverSide(ply) == Turn(SubSeq(board, 1, ply - 1))

Replayed == gpc = "reset"

\* C5, as claimed: the game-end replay updates a table for the moves its
\* owner played and for no move the other player played.
C5_CreditByOwner ==
  Replayed =>
    \A k \in 1..Len(replay_log) :
      MoverSide(replay_log[k].ply) = OwnerSide(replay_log[k].table)

\* C6, as claimed: the reward replayed into a table is +1 when the game ended
\* in checkmate of the opponent of the table's agent, -1 when the agent's own
\* side is mated, and 0 on stalemate or insufficient material.
C6_RewardByOwner ==
  (Replayed /\ Kind(board) \in {"checkmate", "stalemate", "insufficient"}) =>
    \A k \in 1..Len(replay_log) :
      replay_log[k].reward =
        IF ~IsCheckmate(board) THEN 0
        ELSE IF Turn(board) # OwnerSide(replay_log[k].table) THEN 1000
        ELSE -1000

\* C9: the value table is written by one writer.  No step taken while
\* alpha_beta or iterative_deepening runs changes a table; within one
\* compute_best_move the only step that changes a table is the one that
\* learns the chosen move, and it changes the table of the agent at the key
\* (identity of the position before the move, identity of the move) and at no
\* other key; no step of a game ever removes a key from a table.
C9_Frame ==
  [][ /\ (stack # <<>> \/ idf.pc \notin {"off", "ret"}) => qtable' = qtable
      /\ (cbm.pc # "off" /\ ~(cbm.pc = "wait" /\ cbm'.pc = "applied"))
           => qtable' = qtable
      /\ (cbm.pc = "wait" /\ cbm'.pc = "applied") =>
           LET key == <<Fen(board), Uci(cbm'.best_move)>>
           IN  /\ \A t \in {1, 2} : t # ai => qtable'[t] = qtable[t]
               /\ key \in QKeys(qtable'[ai])
               /\ QKeys(qtable'[ai]) = QKeys(qtable[ai]) \cup {key}
               /\ \A k \in QKeys(qtable[ai]) \ {key} :
                    qtable'[ai][k[1]][k[2]] = qtable[ai][k[1]][k[2]]
      /\ \A t \in {1, 2} :
           /\ DOMAIN qtable[t] \subseteq DOMAIN qtable'[t]
           /\ QKeys(qtable[t]) \subseteq QKeys(qtable'[t])
    ]_vars

\* a game was played to its end from a loaded table: the AI chose a move, the
\* replay ran, and the table holds every key it was loaded with and more
C9_Witness ==
  /\ Replayed
  /\ replay_log # <<>>
  /\ \E i \in 1..Len(chosen) : chosen[i].table = 1
  /\ entry_q[1] # <<>>
  /\ QKeys(entry_q[1]) \subseteq QKeys(qtable[1])
  /\ QKeys(entry_q[1]) # QKeys(qtable[1])

\* C10, as claimed: for a move an agent chose through compute_best_move, the
\* replay updates, in that agent's table, the entry compute_best_move updated
\* when it chose the move.
C10_ReplayOnLearnedKey ==
  Replayed =>
    \A k \in 1..Len(replay_log) :
      LET learned == chosen[replay_log[k].ply]
      IN  learned.table = replay_log[k].table =>
            /\ replay_log[k].fen = learned.fen
            /\ replay_log[k].move = learned.move

====
